---- MODULE Spec2Model ----
(***************************************************************************)
(* Model of the detect and fill route handlers of                          *)
(* keep-calm-and-fill-the-form (src/src/app/api/detect/route.ts): the      *)
(* name normalizer, the two field-name resolvers, the recognizer response  *)
(* validator (parseResponse), and the detect and fill request handlers     *)
(* with the fill handler's per-proposal loop.                              *)
(*                                                                         *)
(* Strings are sequences of one-character strings, so that toLowerCase,    *)
(* trim, the [^a-z0-9] filter and substring tests are computed rather      *)
(* than assumed.  JavaScript's null / undefined results are the value      *)
(* Null, and a JavaScript truthiness test on a string is Truthy.           *)
(***************************************************************************)
EXTENDS Integers, Sequences, FiniteSets, TLC

VARIABLES
    call,             \* arguments of the pure function under check
    result,           \* its result, NotCalled before the call
    request,          \* the request being handled, NoRequest outside one
    pc,               \* position of the request being handled
    fieldsFrom,       \* where fieldsToFill comes from: payload.fields or the keys of values
    pageCount,        \* number of pages of the loaded document
    inventory,        \* structured fields of the loaded document, in order
    form,             \* field name -> value currently stored in the field
    used,             \* the fill loop's used-names set
    values,           \* payload.values, as far as the loop has read it
    idx,              \* number of proposals the fill loop has taken
    cur,              \* the iteration the fill loop executed last
    applied,          \* field name -> number of applyValueToField calls
    drawn,            \* texts drawn on the pages by drawText, in order
    effects,          \* what the handler did: load, recognize, save
    response,         \* the HTTP response, NoResponse while handling
    ui                \* the page component: a detected field, its answer, its adjustments

vars == <<call, result, request, pc, fieldsFrom, pageCount, inventory, form, used, values,
          idx, cur, applied, drawn, effects, response, ui>>

-----------------------------------------------------------------------------
(* Strings *)

Null == <<"<null>">>
NotCalled == [called |-> FALSE, value |-> <<"<null>">>]
Returned(v) == [called |-> TRUE, value |-> v]

UpperChars == <<"A", "B", "C", "D", "E", "F", "G", "H", "I", "J", "K", "L", "M",
                "N", "O", "P", "Q", "R", "S", "T", "U", "V", "W", "X", "Y", "Z">>
LowerChars == <<"a", "b", "c", "d", "e", "f", "g", "h", "i", "j", "k", "l", "m",
                "n", "o", "p", "q", "r", "s", "t", "u", "v", "w", "x", "y", "z">>
DigitChars == {"0", "1", "2", "3", "4", "5", "6", "7", "8", "9"}
SpaceChars == {" ", "\t", "\n"}

Range(s) == {s[i] : i \in 1..Len(s)}

\* the lower-case form of the characters that have one: A-Z, and two characters
\* outside ASCII (KELVIN SIGN, whose lower case is k, and E WITH ACUTE)
LowerOf ==
    [c \in Range(UpperChars) |->
        LowerChars[CHOOSE i \in 1..Len(UpperChars) : UpperChars[i] = c]]
      @@ ("U+212A" :> "k") @@ ("U+00C9" :> "U+00E9")

ToLowerChar(c) == IF c \in DOMAIN LowerOf THEN LowerOf[c] ELSE c

\* String.prototype.toLowerCase
ToLowerCase(s) == [i \in 1..Len(s) |-> ToLowerChar(s[i])]

\* the character class [a-z0-9]
AlnumLowerChars == Range(LowerChars) \cup DigitChars

IsAlnumLower(c) == c \in AlnumLowerChars

\* String.prototype.includes
Includes(s, sub) ==
    \E k \in 0..(Len(s) - Len(sub)) : SubSeq(s, k + 1, k + Len(sub)) = sub

\* String.prototype.trim
Trim(s) ==
    LET keep == {i \in 1..Len(s) : s[i] \notin SpaceChars}
    IN  IF keep = {} THEN <<>>
        ELSE SubSeq(s, CHOOSE i \in keep : \A j \in keep : i <= j,
                       CHOOSE i \in keep : \A j \in keep : j <= i)

\* JavaScript truthiness of a string-or-null/undefined value
Truthy(s) == s /= Null /\ s /= <<>>

\* Array.prototype.find: the first element satisfying P, else undefined
Find(seq, P(_)) ==
    LET hits == SelectSeq(seq, P)
    IN  IF hits = <<>> THEN Null ELSE Head(hits)

\* Array.prototype.filter
Filter(seq, P(_)) == SelectSeq(seq, P)

-----------------------------------------------------------------------------
(* Name normalizer and field kinds *)

\* mutant: replace without the g flag, only the first character outside
\* [a-z0-9] is removed
normalize_replaceOnce(value) ==
    LET lower == ToLowerCase(value)
        bad == {i \in 1..Len(lower) : ~IsAlnumLower(lower[i])}
        first == CHOOSE i \in bad : \A j \in bad : i <= j
    IN  IF bad = {} THEN lower
        ELSE SubSeq(lower, 1, first - 1) \o SubSeq(lower, first + 1, Len(lower))

\* value.toLowerCase().replace(/[^a-z0-9]/g, "")
normalize(value) == SelectSeq(ToLowerCase(value), IsAlnumLower)

PdfFieldKind == {"text", "checkbox", "radio", "dropdown", "optionlist", "unknown"}

\* The typed accessors of the form: each succeeds on fields of one kind only.
AccessorOrder == <<"text", "checkbox", "radio", "dropdown", "optionlist">>

FieldNamed(inv, name) ==
    LET hits == {i \in 1..Len(inv) : inv[i].name = name}
    IN  inv[CHOOSE i \in hits : \A j \in hits : i <= j]

HasField(inv, name) == \E i \in 1..Len(inv) : inv[i].name = name

\* form.getTextField / getCheckBox / ... : TRUE when the accessor returns,
\* FALSE when it throws.
AccessorSucceeds(inv, name, kind) ==
    HasField(inv, name) /\ FieldNamed(inv, name).kind = kind

\* mutant: a field no accessor accepts counts as a text field
detectFieldKind_textByDefault(inv, name) ==
    LET ok == {i \in 1..Len(AccessorOrder) : AccessorSucceeds(inv, name, AccessorOrder[i])}
    IN  IF ok = {} THEN "text"
        ELSE AccessorOrder[CHOOSE i \in ok : \A j \in ok : i <= j]

detectFieldKind(inv, name) ==
    LET ok == {i \in 1..Len(AccessorOrder) : AccessorSucceeds(inv, name, AccessorOrder[i])}
    IN  IF ok = {} THEN "unknown"
        ELSE AccessorOrder[CHOOSE i \in ok : \A j \in ok : i <= j]

FieldNamesOf(inv) == [i \in 1..Len(inv) |-> inv[i].name]

\* fieldKinds.get(name) ?? "unknown"
KindOf(inv, name) ==
    IF HasField(inv, name) THEN detectFieldKind(inv, name) ELSE "unknown"

-----------------------------------------------------------------------------
(* Field-name resolver of the detect handler *)

resolveFieldNameDetect(requested, available) ==
    LET normalizedRequested == normalize(requested)
        exact == Find(available, LAMBDA name : name = requested)
        caseInsensitive ==
            Find(available, LAMBDA name : ToLowerCase(name) = ToLowerCase(requested))
        normalizedMatch ==
            Find(available, LAMBDA name : normalize(name) = normalizedRequested)
        contains ==
            Find(available, LAMBDA name : Includes(normalize(name), normalizedRequested))
    IN  IF Truthy(exact) THEN exact
        ELSE IF Truthy(caseInsensitive) THEN caseInsensitive
        ELSE IF Truthy(normalizedMatch) THEN normalizedMatch
        ELSE IF Truthy(contains) THEN contains
        ELSE Null

-----------------------------------------------------------------------------
(* Field-name resolver of the fill handler *)

\* kindMap.get(name) ?? "unknown"
MapGet(kindMap, name) ==
    IF name \in DOMAIN kindMap THEN kindMap[name] ELSE "unknown"

\* mutant: the containment tier takes the first containing candidate
resolveFieldName_firstContaining(requested, available, kindMap, preferredKinds) ==
    resolveFieldNameDetect(requested, available)

\* mutant: several containing candidates are never told apart by kind
resolveFieldName_noKindTier(requested, available, kindMap, preferredKinds) ==
    LET viaDetect == resolveFieldNameDetect(requested, available)
        contains == Filter(available,
                           LAMBDA name : Includes(normalize(name), normalize(requested)))
    IN  IF Truthy(viaDetect) /\ Len(contains) > 1
             /\ normalize(viaDetect) /= normalize(requested)
        THEN Null ELSE viaDetect

resolveFieldName(requested, available, kindMap, preferredKinds) ==
    LET normalizedRequested == normalize(requested)
        exact == Find(available, LAMBDA name : name = requested)
        caseInsensitive ==
            Find(available, LAMBDA name : ToLowerCase(name) = ToLowerCase(requested))
        normalizedMatch ==
            Find(available, LAMBDA name : normalize(name) = normalizedRequested)
        contains ==
            Filter(available, LAMBDA name : Includes(normalize(name), normalizedRequested))
        kindMatch ==
            Find(contains, LAMBDA name : MapGet(kindMap, name) \in Range(preferredKinds))
    IN  IF Truthy(exact) THEN exact
        ELSE IF Truthy(caseInsensitive) THEN caseInsensitive
        ELSE IF Truthy(normalizedMatch) THEN normalizedMatch
        ELSE IF Len(contains) = 1 THEN contains[1]
        ELSE IF Len(contains) > 1 /\ Len(preferredKinds) > 0 /\ Truthy(kindMatch)
             THEN kindMatch
        ELSE Null

\* const fieldKinds = new Map(); for (name of names) fieldKinds.set(name, detectFieldKind(form, name))
FieldKindsOf(inv) ==
    [name \in Range(FieldNamesOf(inv)) |-> detectFieldKind(inv, name)]

-----------------------------------------------------------------------------
(* Inputs *)

MaxFields == 2

nEmpty == <<>>
nFull_Name == <<"F", "u", "l", "l", "_", "N", "a", "m", "e">>
nFullname == <<"f", "u", "l", "l", "n", "a", "m", "e">>
nPhoneHome == <<"p", "h", "o", "n", "e", "_", "h", "o", "m", "e">>
nPhoneWork == <<"p", "h", "o", "n", "e", "_", "w", "o", "r", "k">>
nEmail == <<"E", "m", "a", "i", "l">>
nFULL_NAME == <<"F", "U", "L", "L", "_", "N", "A", "M", "E">>
nFullSpName == <<"f", "u", "l", "l", " ", "n", "a", "m", "e">>
nPhone == <<"p", "h", "o", "n", "e">>
nName == <<"n", "a", "m", "e">>
nUnderscore == <<"_">>
nZip == <<"z", "i", "p">>

\* names a document's structured fields may carry (an unnamed field has name "")
FieldNames == {nEmpty, nFull_Name, nFullname, nPhoneHome, nPhoneWork, nEmail}

\* names a recognizer or a caller may ask for
RequestedNames ==
    FieldNames \cup {nFULL_NAME, nFullSpName, nPhone, nName, nUnderscore, nZip}

vOpt == <<"O", "p", "t">>

\* options of a choice field of the sample documents
FieldOptions(kind) ==
    IF kind \in {"radio", "dropdown", "optionlist"} THEN <<vOpt>> ELSE <<>>

Field(name, kind) == [name |-> name, kind |-> kind]

\* inventories: up to MaxFields fields with distinct names, in any order
Inventories ==
    UNION {
      {inv \in [1..n -> {Field(nm, k) : nm \in FieldNames, k \in PdfFieldKind}] :
          \A i, j \in 1..n : i /= j => inv[i].name /= inv[j].name}
      : n \in 0..MaxFields }

FieldType == {"text", "email", "number", "date", "checkbox", "radio", "select"}

\* desiredKinds as the fill loop builds it from a proposal's type
desiredKindsOf(type) ==
    (IF type = "checkbox" THEN <<"checkbox">> ELSE <<>>)
      \o (IF type = "radio" THEN <<"radio">> ELSE <<>>)
      \o (IF type = "select" THEN <<"dropdown", "optionlist">> ELSE <<>>)

\* proposal types the resolver is called for, and their desiredKinds
ResolveTypes == {"text", "checkbox", "radio", "select"}
PreferredLists == {desiredKindsOf(t) : t \in ResolveTypes}

-----------------------------------------------------------------------------
(* State outside a request, and outside a function call *)

\* NextResponse.json(body, { status }): an error body, the filled PDF, or the
\* detection result
Response(status, kind, error) ==
    [status |-> status, kind |-> kind, error |-> error, fields |-> <<>>,
     title |-> <<"<null>">>]
NoResponse == Response(0, "none", "none")
NoRequest ==
    [handler |-> "none", apiKey |-> "n/a", file |-> "n/a", body |-> "n/a",
     pdfBase64 |-> "n/a", values |-> "n/a", fields |-> "n/a"]
NoIteration ==
    [entry |-> "none", name |-> Null, type |-> "absent", hasBox |-> FALSE,
     value |-> [t |-> "undefined", s |-> <<>>], desiredKinds |-> <<>>,
     resolvedName |-> Null, targetName |-> Null, usedBefore |-> {},
     effect |-> "none"]
NoCall == [op |-> "none"]

\* the page component before a file is chosen
NoUi == [mounted |-> FALSE]

HandlerIdle ==
    /\ request = NoRequest
    /\ pc = "idle"
    /\ fieldsFrom = "none"
    /\ pageCount = 0
    /\ inventory = <<>>
    /\ form = <<>>
    /\ used = {}
    /\ values = <<>>
    /\ idx = 0
    /\ cur = NoIteration
    /\ applied = <<>>
    /\ drawn = <<>>
    /\ effects = {}
    /\ response = NoResponse
    /\ ui = NoUi

HandlerInit == call = NoCall /\ result = NotCalled /\ HandlerIdle

handlerVars == <<request, pc, fieldsFrom, pageCount, inventory, form, used, values, idx,
                 cur, applied, drawn, effects, response, ui>>

-----------------------------------------------------------------------------
(* resolveFieldName of the fill handler, called on any names and kinds *)

ResolveCalls ==
    {[op |-> "resolveFieldName", requested |-> r, inv |-> i, type |-> t,
      preferredKinds |-> desiredKindsOf(t)] :
        r \in RequestedNames, i \in Inventories, t \in ResolveTypes}

InitResolve ==
    /\ call \in ResolveCalls
    /\ result = NotCalled
    /\ HandlerIdle

ResolveCall ==
    /\ call.op = "resolveFieldName"
    /\ ~result.called
    /\ result' = Returned(resolveFieldName(call.requested, FieldNamesOf(call.inv),
                                           FieldKindsOf(call.inv), call.preferredKinds))
    /\ UNCHANGED <<call, handlerVars>>

NextResolve == ResolveCall

SpecResolve == InitResolve /\ [][NextResolve]_vars

\* The tiers of section 4.3, stated independently of the resolver:
\* the first tier at which a candidate matches the requested name, 0 if none.
TierOf(requested, name) ==
    IF name = requested THEN 1
    ELSE IF ToLowerCase(name) = ToLowerCase(requested) THEN 2
    ELSE IF normalize(name) = normalize(requested) THEN 3
    ELSE IF Includes(normalize(name), normalize(requested)) THEN 4
    ELSE 0

CandidatesAt(requested, available, tier) ==
    {i \in 1..Len(available) : TierOf(requested, available[i]) = tier}

\* the earliest tier some candidate matches at, 0 if none does
FirstTier(requested, available) ==
    IF \E t \in 1..4 : CandidatesAt(requested, available, t) /= {}
    THEN CHOOSE t \in 1..4 :
           /\ CandidatesAt(requested, available, t) /= {}
           /\ \A u \in 1..(t - 1) : CandidatesAt(requested, available, u) = {}
    ELSE 0

Resolved == call.op = "resolveFieldName" /\ result.called

\* C6: resolveFieldName returns the match of the first tier that has one:
\* a requested name that is a member of the available list is returned
\* unchanged, an equality tier (1..3) that has a match yields a match of that
\* tier, and a returned candidate never matches only at a later tier than
\* some other available candidate.
C6_TiersInOrder ==
    Resolved =>
      LET available == FieldNamesOf(call.inv)
          first == FirstTier(call.requested, available)
      IN  /\ (call.requested \in Range(available) => result.value = call.requested)
          /\ (first \in 1..3 =>
                /\ result.value \in Range(available)
                /\ TierOf(call.requested, result.value) = first)
          /\ (result.value /= Null =>
                /\ result.value \in Range(available)
                /\ TierOf(call.requested, result.value) = first)

\* C7: with no candidate equal by tiers 1..3 and an empty preferred-kind list,
\* several containment candidates give no match and exactly one containment
\* candidate gives that candidate.
C7_AmbiguousContainment ==
    (Resolved /\ call.preferredKinds = <<>>) =>
      LET available == FieldNamesOf(call.inv)
          containing == CandidatesAt(call.requested, available, 4)
      IN  FirstTier(call.requested, available) = 4 =>
            /\ (Cardinality(containing) > 1 => result.value = Null)
            /\ (Cardinality(containing) = 1 =>
                  \A i \in containing : result.value = available[i])

\* "phone" against phone_home, phone_work without preferred kinds: no match
C7_Witness ==
    /\ Resolved
    /\ call.requested = nPhone
    /\ FieldNamesOf(call.inv) = <<nPhoneHome, nPhoneWork>>
    /\ call.preferredKinds = <<>>
    /\ result.value = Null

\* the smallest element of a non-empty set of indices
First(indices) == CHOOSE i \in indices : \A j \in indices : i <= j

\* C18: when no candidate is equal by tiers 1..3, several candidates contain
\* the requested name's normalized form and the preferred-kind list is not
\* empty, the result is the first containing candidate whose kind is preferred,
\* and no match when none is; the preferred kinds are checkbox for type
\* checkbox, radio for radio, dropdown and optionlist for select, and none for
\* any other type.
C18_PreferredKindBreaksTie ==
    Resolved =>
      LET available == FieldNamesOf(call.inv)
          containing == CandidatesAt(call.requested, available, 4)
          preferred == {i \in containing :
                          KindOf(call.inv, available[i]) \in Range(call.preferredKinds)}
      IN  /\ (/\ FirstTier(call.requested, available) = 4
              /\ Cardinality(containing) > 1
              /\ call.preferredKinds /= <<>>)
                => result.value = (IF preferred = {} THEN Null
                                   ELSE available[First(preferred)])
          /\ Range(call.preferredKinds) =
               (IF call.type = "checkbox" THEN {"checkbox"}
                ELSE IF call.type = "radio" THEN {"radio"}
                ELSE IF call.type = "select" THEN {"dropdown", "optionlist"}
                ELSE {})
          /\ \A t \in FieldType \cup {"absent"} :
               t \notin {"checkbox", "radio", "select"} => desiredKindsOf(t) = <<>>

\* "phone" of type checkbox against phone_home (text), phone_work (checkbox):
\* the second candidate, by kind
C18_Witness ==
    /\ Resolved
    /\ call.requested = nPhone
    /\ call.inv = <<Field(nPhoneHome, "text"), Field(nPhoneWork, "checkbox")>>
    /\ call.type = "checkbox"
    /\ result.value = nPhoneWork

\* C26: called with an empty preferred-kind list, the resolver of the fill
\* handler returns what the resolver of the detect handler returns for the same
\* requested name and available list.
C26_ResolversAgree ==
    (Resolved /\ call.preferredKinds = <<>>) =>
        result.value = resolveFieldNameDetect(call.requested, FieldNamesOf(call.inv))

-----------------------------------------------------------------------------
(* Values, proposals and pages of a fill request *)

MaxProposals == 2

Undefined == [t |-> "undefined", s |-> <<>>]
JsonNull == [t |-> "null", s |-> <<>>]
StringValue(s) == [t |-> "string", s |-> s]
BooleanValue(b) ==
    [t |-> "boolean",
     s |-> IF b THEN <<"t", "r", "u", "e">> ELSE <<"f", "a", "l", "s", "e">>]

\* String(value)
String(value) == value.s

\* value === undefined || value === null
IsMissing(value) == value.t \in {"undefined", "null"}

\* a one-character text outside the WinAnsi encoding of the standard font
vOmega == <<"U+03A9">>

PayloadValues == {Undefined, JsonNull, StringValue(vOpt), StringValue(vOmega)}

\* an optional number: absent, a number, or a value that is no number
NoNumber == [t |-> "undefined", n |-> 0]
Num(n) == [t |-> "number", n |-> n]
NotANumber == [t |-> "string", n |-> 0]

\* Numbers of the geometry are counted in units of 1/Unit, so that the
\* fractions the code multiplies by (0.4, 0.04, 0.25, 0.6) stay exact.
Unit == 20000
Points(n) == n * Unit
\* n thousandths
Milli(n) == n * (Unit \div 1000)

\* the bbox of a proposal: absent, or page, x, y with optional width and height
NoBox == [present |-> FALSE, page |-> NoNumber, x |-> 0, y |-> 0,
          width |-> NoNumber, height |-> NoNumber]
BoxAt(page, x, y, width, height) ==
    [present |-> TRUE, page |-> page, x |-> x, y |-> y, width |-> width, height |-> height]
\* the box {x: 0.6, y: 0.9, width: 0.2, height: 0.03} on a page
Box(page) ==
    BoxAt(Num(Points(page)), Milli(600), Milli(900), Num(Milli(200)), Num(Milli(30)))

\* an entry of payload.fields: an object, or JSON null
Proposal(name, type, bbox) ==
    [entry |-> "object", name |-> name, type |-> type, bbox |-> bbox]
NullProposal == [entry |-> "null", name |-> Null, type |-> "absent", bbox |-> NoBox]

ProposalNames == {nEmpty, nFull_Name, nName, nZip}
ProposalTypes == {"absent", "checkbox"}
ProposalBoxes == {NoBox, Box(1)}

\* entries of payload.fields
FieldEntries ==
    {Proposal(n, t, b) : n \in ProposalNames, t \in ProposalTypes, b \in ProposalBoxes}
      \cup {NullProposal}

\* entries of Object.keys(payload.values).map((name) => ({ name }))
KeyEntries == {Proposal(n, "absent", NoBox) : n \in ProposalNames}

PageCounts == {0, 1}

\* inventories the loop is run over
LoopFieldNames == {nEmpty, nFull_Name, nPhoneHome}
LoopKinds == {"text", "checkbox"}
LoopInventories ==
    {inv \in Inventories :
        \A i \in 1..Len(inv) : inv[i].name \in LoopFieldNames /\ inv[i].kind \in LoopKinds}

-----------------------------------------------------------------------------
(* applyValueToField *)

Unset == <<"<unset>">>
Checked == <<"<checked>">>
Unchecked == <<"<unchecked>">>

\* radio.select / list.select throw on a value that is no option of the field;
\* dropdown.select accepts any value
SelectThrows(kind, value) ==
    kind \in {"radio", "optionlist"} /\ String(value) \notin Range(FieldOptions(kind))

\* the kind of the first try block that runs to its end, "none" when all throw
ApplyBranch(inv, fieldName, value) ==
    IF AccessorSucceeds(inv, fieldName, "text") THEN "text"
    ELSE IF AccessorSucceeds(inv, fieldName, "checkbox") THEN "checkbox"
    ELSE IF AccessorSucceeds(inv, fieldName, "radio") /\ ~SelectThrows("radio", value)
         THEN "radio"
    ELSE IF AccessorSucceeds(inv, fieldName, "dropdown") /\ ~SelectThrows("dropdown", value)
         THEN "dropdown"
    ELSE IF AccessorSucceeds(inv, fieldName, "optionlist")
              /\ ~SelectThrows("optionlist", value)
         THEN "optionlist"
    ELSE "none"

\* mutant: a checkbox compares the string with "true" as it is
applyValueToField_caseSensitive(frm, inv, fieldName, value) ==
    LET branch == ApplyBranch(inv, fieldName, value)
    IN  IF branch = "checkbox"
        THEN [frm EXCEPT ![fieldName] =
                IF value = BooleanValue(TRUE) \/ value = StringValue(<<"t", "r", "u", "e">>)
                THEN Checked ELSE Unchecked]
        ELSE IF branch = "none" THEN frm
        ELSE [frm EXCEPT ![fieldName] = String(value)]

applyValueToField(frm, inv, fieldName, value) ==
    LET normalized ==
            IF value.t = "boolean"
            THEN (IF value = BooleanValue(TRUE) THEN <<"Y", "e", "s">> ELSE <<"O", "f", "f">>)
            ELSE String(value)
        branch == ApplyBranch(inv, fieldName, value)
    IN  IF branch = "text" THEN [frm EXCEPT ![fieldName] = String(value)]
        ELSE IF branch = "checkbox"
             THEN IF value.t = "boolean"
                  THEN [frm EXCEPT ![fieldName] =
                          IF value = BooleanValue(TRUE) THEN Checked ELSE Unchecked]
                  ELSE IF ToLowerCase(normalized) = <<"t", "r", "u", "e">>
                       THEN [frm EXCEPT ![fieldName] = Checked]
                       ELSE [frm EXCEPT ![fieldName] = Unchecked]
        ELSE IF branch \in {"radio", "dropdown", "optionlist"}
             THEN [frm EXCEPT ![fieldName] = String(value)]
        ELSE frm

-----------------------------------------------------------------------------
(* drawValueAtBBox: page selection and caption; the drawText call *)

Max(a, b) == IF a >= b THEN a ELSE b
Min(a, b) == IF a <= b THEN a ELSE b

\* Math.round: the nearest integer, halves upwards
Round(v) == ((v + Unit \div 2) \div Unit)

\* mutant: the index is not clamped
PageIndex_unclamped(pages, page) ==
    LET rounded == Round(IF page.t = "number" THEN page.n ELSE 0)
    IN  IF rounded >= pages /\ rounded > 0 THEN rounded - 1 ELSE rounded

\* the index of the page drawn on, for pages.length = pages
PageIndex(pages, page) ==
    LET rounded == Round(IF page.t = "number" THEN page.n ELSE 0)
        pageIndex == IF rounded >= pages /\ rounded > 0 THEN rounded - 1 ELSE rounded
    IN  Max(0, Min(pages - 1, pageIndex))

CaptionText(value) ==
    IF value.t = "boolean"
    THEN (IF value = BooleanValue(TRUE) THEN <<"Y", "e", "s">> ELSE <<"N", "o">>)
    ELSE String(value)

WinAnsiChars ==
    Range(UpperChars) \cup Range(LowerChars) \cup DigitChars \cup {" ", "_", "-", "."}

\* page.drawText with the default font throws on a character it cannot encode
DrawTextThrows(text) == \E i \in 1..Len(text) : text[i] \notin WinAnsiChars

\* width ?? 0, height ?? 0
OrZero(v) == IF v.t = "number" THEN v.n ELSE 0

\* mutant: only x and y decide
IsNormalized_xyOnly(bbox) == bbox.x <= Unit /\ bbox.y <= Unit

\* isNormalized
IsNormalized(bbox) ==
    /\ bbox.x <= Unit
    /\ bbox.y <= Unit
    /\ OrZero(bbox.width) <= Unit
    /\ OrZero(bbox.height) <= Unit

\* mutant: the font size is not clamped
FontSize_unclamped(height) == (height * 3) \div 5

\* fontSize
FontSize(height) == Min(Points(16), Max(Points(9), (height * 3) \div 5))

\* a page of US Letter size, and a smaller one, in points
LetterPage == [width |-> 612, height |-> 792]
SmallPage == [width |-> 300, height |-> 400]

\* lines 406-440 on a page: the box in page units and the drawText options
Geometry(page, bbox) ==
    LET pageWidth == Points(page.width)
        pageHeight == Points(page.height)
        isNormalized == IsNormalized(bbox)
        rawWidth == IF bbox.width.t = "number" THEN bbox.width.n
                    ELSE IF isNormalized THEN Milli(400) ELSE (pageWidth * 2) \div 5
        rawHeight == IF bbox.height.t = "number" THEN bbox.height.n
                     ELSE IF isNormalized THEN Milli(40) ELSE Points(24)
        width == IF isNormalized THEN rawWidth * page.width ELSE rawWidth
        height == IF isNormalized THEN rawHeight * page.height ELSE rawHeight
        x == IF isNormalized THEN Max(0, Min(Unit, bbox.x)) * page.width
             ELSE Max(0, Min(pageWidth - width, bbox.x))
        yFromTop == IF isNormalized THEN Max(0, Min(Unit, bbox.y)) * page.height
                    ELSE Max(0, Min(pageHeight, bbox.y))
        padding == Min(Points(6), height \div 4)
        y == Min(pageHeight - padding, Max(padding, pageHeight - yFromTop - height + padding))
        fontSize == FontSize(height)
    IN  [isNormalized |-> isNormalized, width |-> width, height |-> height,
         x |-> x, yFromTop |-> yFromTop,
         at |-> [x |-> Min(pageWidth - Points(4), Max(Points(2), x + Points(2))),
                 y |-> Max(Points(2), y)],
         size |-> fontSize]

NotDrawn == [outcome |-> "none"]

\* "none": returned before drawText; "drawn"; "throws": drawText threw.
\* pages is the sequence of the document's pages.
drawValueAtBBox(pages, bbox, value) ==
    LET pageIndex == PageIndex(Len(pages), bbox.page)
    IN  IF ~bbox.present THEN NotDrawn
        ELSE IF pageIndex < 0 \/ pageIndex >= Len(pages) THEN NotDrawn
        ELSE IF DrawTextThrows(CaptionText(value)) THEN [outcome |-> "throws"]
        ELSE [outcome |-> "drawn", page |-> pageIndex, text |-> CaptionText(value),
              geometry |-> Geometry(pages[pageIndex + 1], bbox)]

\* the pages of a loaded document of n pages
PagesOf(n) == [i \in 1..n |-> LetterPage]

-----------------------------------------------------------------------------
(* The fill handler's loop over fieldsToFill *)

\* availableFieldNames.filter((n) => !used.has(n))
Candidates(inv, usedNames) ==
    Filter(FieldNamesOf(inv), LAMBDA n : n \notin usedNames)

\* Type-aware fallback: first unused field of expected kind
TypeAwareFallback(inv, usedNames, desiredKinds) ==
    Find(FieldNamesOf(inv),
         LAMBDA name : name \notin usedNames
                         /\ MapGet(FieldKindsOf(inv), name) \in Range(desiredKinds))

\* mutant: the fallback by kind comes before the resolved name
TargetName_fallbackFirst(resolvedName, inv, usedNames, desiredKinds) ==
    IF Len(desiredKinds) > 0 /\ Truthy(TypeAwareFallback(inv, usedNames, desiredKinds))
    THEN TypeAwareFallback(inv, usedNames, desiredKinds)
    ELSE resolvedName

TargetName(resolvedName, inv, usedNames, desiredKinds) ==
    IF ~Truthy(resolvedName) /\ Len(desiredKinds) > 0
    THEN TypeAwareFallback(inv, usedNames, desiredKinds)
    ELSE resolvedName

\* mutant: a box is drawn on whether or not a target was found
Overlays_always(targetName, bbox) == bbox.present

\* if (!targetName) { if (field.bbox) drawValueAtBBox(...) ...; continue }
Overlays(targetName, bbox) == ~Truthy(targetName) /\ bbox.present

\* mutant: the target is not recorded as used
Reserve_forgets(usedNames, targetName) == usedNames

\* used.add(targetName)
Reserve(usedNames, targetName) == usedNames \cup {targetName}

FillError == Response(500, "error", "Failed to fill PDF")
FilledPdf == Response(200, "pdf", "none")

\* One iteration of the loop on entry `field`, whose entry in payload.values
\* is `value`: what it leaves behind.
Iteration(field, value) ==
    LET desiredKinds == desiredKindsOf(field.type)
        resolvedName ==
            resolveFieldName(field.name, Candidates(inventory, used),
                             FieldKindsOf(inventory), desiredKinds)
        targetName == TargetName(resolvedName, inventory, used, desiredKinds)
        draw == drawValueAtBBox(PagesOf(pageCount), field.bbox, value)
        base == [entry |-> field.entry, name |-> field.name, type |-> field.type,
                 hasBox |-> field.bbox.present, value |-> value,
                 desiredKinds |-> desiredKinds, resolvedName |-> Null,
                 targetName |-> Null, usedBefore |-> used, effect |-> "none"]
    IN  IF field.entry = "null" THEN [base EXCEPT !.effect = "threw on entry"]
        ELSE IF ~Truthy(field.name) THEN [base EXCEPT !.effect = "no name"]
        ELSE IF IsMissing(value)
             THEN [base EXCEPT !.resolvedName = resolvedName, !.effect = "no value"]
        ELSE IF Overlays(targetName, field.bbox)
             THEN [base EXCEPT !.resolvedName = resolvedName, !.targetName = targetName,
                               !.effect = IF draw.outcome = "drawn" THEN "drawn"
                                          ELSE IF draw.outcome = "throws" THEN "drawText threw"
                                          ELSE "no page"]
        ELSE IF ~Truthy(targetName)
             THEN [base EXCEPT !.resolvedName = resolvedName, !.targetName = targetName,
                               !.effect = "warned"]
        ELSE [base EXCEPT !.resolvedName = resolvedName, !.targetName = targetName,
                          !.effect = IF ApplyBranch(inventory, targetName, value) = "none"
                                     THEN "apply rejected" ELSE "applied"]

Throws(it) == it.effect \in {"threw on entry", "drawText threw"}
Applies(it) == it.effect \in {"applied", "apply rejected"}

\* the entries fieldsToFill may hold next, with the value payload.values has
\* for the entry's name
NextEntries ==
    IF fieldsFrom = "payload.fields"
    THEN {<<f, v>> \in FieldEntries \X PayloadValues :
            IF f.entry = "null" \/ ~Truthy(f.name) THEN v = Undefined
            ELSE f.name \in DOMAIN values => v = values[f.name]}
    ELSE {<<f, v>> \in KeyEntries \X PayloadValues :
            /\ f.name \notin DOMAIN values
            /\ IF ~Truthy(f.name) THEN v = Undefined ELSE v /= Undefined}

FillStep ==
    /\ pc = "fill_loop"
    /\ idx < MaxProposals
    /\ \E fv \in NextEntries : \E it \in {Iteration(fv[1], fv[2])} :
         LET field == fv[1]
             value == fv[2]
         IN  /\ cur' = it
             /\ idx' = idx + 1
             /\ values' = IF field.entry = "null" THEN values
                          ELSE (field.name :> value) @@ values
             /\ used' = IF Applies(it) THEN Reserve(used, it.targetName) ELSE used
             /\ applied' = IF Applies(it)
                           THEN [applied EXCEPT ![it.targetName] = @ + 1]
                           ELSE applied
             /\ form' = IF Applies(it)
                        THEN applyValueToField(form, inventory, it.targetName, value)
                        ELSE form
             /\ drawn' = IF it.effect = "drawn"
                         THEN Append(drawn, drawValueAtBBox(PagesOf(pageCount), field.bbox, value))
                         ELSE drawn
             /\ effects' = effects
                             \cup (IF it.effect \in {"threw on entry", "no name"}
                                   THEN {} ELSE {"resolve"})
                             \cup (IF Applies(it) THEN {"apply"} ELSE {})
                             \cup (IF it.effect \in {"drawn", "drawText threw"}
                                   THEN {"draw"} ELSE {})
             /\ pc' = IF Throws(it) THEN "done" ELSE "fill_loop"
             /\ response' = IF Throws(it) THEN FillError ELSE response
    /\ UNCHANGED <<ui, call, result, request, fieldsFrom, pageCount, inventory>>

\* pdfDoc.save() and the response
FillFinish ==
    /\ pc = "fill_loop"
    /\ fieldsFrom = "payload.fields" => idx > 0
    /\ pc' = "done"
    /\ effects' = effects \cup {"save"}
    /\ response' = FilledPdf
    /\ UNCHANGED <<ui, call, result, request, fieldsFrom, pageCount, inventory, form, used,
                   values, idx, cur, applied, drawn>>

\* The loop entered with any inventory: the state after line 482.
LoopRequest ==
    [handler |-> "fill", apiKey |-> "n/a", file |-> "n/a", body |-> "object",
     pdfBase64 |-> "bytes", values |-> "object", fields |-> "array"]

InitLoop ==
    /\ call = NoCall
    /\ result = NotCalled
    /\ request = LoopRequest
    /\ pc = "fill_loop"
    /\ fieldsFrom = "payload.fields"
    /\ pageCount = 1
    /\ inventory \in LoopInventories
    /\ form = [n \in Range(FieldNamesOf(inventory)) |-> Unset]
    /\ used = {}
    /\ values = <<>>
    /\ idx = 0
    /\ cur = NoIteration
    /\ applied = [n \in Range(FieldNamesOf(inventory)) |-> 0]
    /\ drawn = <<>>
    /\ effects = {"load"}
    /\ response = NoResponse
    /\ ui = NoUi

NextLoop == FillStep \/ FillFinish

SpecLoop == InitLoop /\ [][NextLoop]_vars

-----------------------------------------------------------------------------
(* Claims about the loop *)

\* C1: within one request no structured field is the target of more than one
\* proposal: applyValueToField is invoked at most once per field name.
C1_OneTargetPerField ==
    \A name \in DOMAIN applied : applied[name] <= 1

\* Full_Name was taken by the first proposal; the second, "name", which is
\* contained in it, had a value and was not applied to any field.
C1_Witness ==
    /\ inventory = <<Field(nFull_Name, "text")>>
    /\ idx = 2
    /\ applied[nFull_Name] = 1
    /\ cur.name = nName
    /\ ~IsMissing(cur.value)
    /\ ~Applies(cur)

SoughtTarget == cur.effect \in {"warned", "drawn", "drawText threw", "no page",
                                "applied", "apply rejected"}

\* the used set as it was when the last iteration began
UsedBefore == cur.usedBefore

RECURSIVE SumOver(_, _)
SumOver(f, names) ==
    IF names = {} THEN 0
    ELSE LET n == CHOOSE m \in names : TRUE
         IN  f[n] + SumOver(f, names \ {n})

\* C20: every proposal has at most one effect, an apply or an overlay; an
\* overlay is made only for a proposal with a value, a box and no target, and
\* a proposal with a target is applied, never overlaid, box or no box.
C20_ApplyOrOverlay ==
    /\ Len(drawn) + SumOver(applied, DOMAIN applied) <= idx
    /\ cur.effect \in {"drawn", "drawText threw"} =>
         /\ ~IsMissing(cur.value)
         /\ ~Truthy(cur.targetName)
         /\ cur.hasBox
    /\ (SoughtTarget /\ Truthy(cur.targetName)) => Applies(cur)

\* a proposal with a box whose name resolved: applied, nothing drawn
C20_Witness ==
    /\ idx = 1
    /\ cur.hasBox
    /\ cur.resolvedName = nFull_Name
    /\ cur.effect = "applied"
    /\ drawn = <<>>

\* the last iteration read a value for a proposal named exactly as a field
NamesFieldExactly ==
    /\ SoughtTarget
    /\ Truthy(cur.name)
    /\ cur.name \in Range(FieldNamesOf(inventory))

-----------------------------------------------------------------------------
(* JSON values of a recognizer response *)

MaxEntries == 2
MaxDetected == 30

Absent == [t |-> "undefined", s |-> <<>>]
JNull == [t |-> "null", s |-> <<>>]
JString(s) == [t |-> "string", s |-> s]
\* a JSON number, with its String() form
JNumber(s) == [t |-> "number", s |-> s]
\* a JSON array of values, with the String() form of each
JArray(strings) == [t |-> "array", s |-> strings]

\* a ?? b
Coalesce(a, b) == IF a.t \in {"undefined", "null"} THEN b ELSE a

\* a value's truthiness, for the values that occur: strings, numbers other than 0
TruthyValue(v) == v.t \notin {"undefined", "null"} /\ v.s /= <<>>

\* a raw bbox: absent, or an object with members of any type
RawNoBox == [json |-> "undefined", page |-> NoNumber, x |-> NoNumber, y |-> NoNumber,
             width |-> NoNumber, height |-> NoNumber]
RawBox(page, x, y, width, height) ==
    [json |-> "object", page |-> page, x |-> x, y |-> y, width |-> width, height |-> height]

\* a raw entry of the fields array: null, a scalar, or an object
NullEntry ==
    [json |-> "null", name |-> Absent, label |-> Absent, type |-> Absent,
     placeholder |-> Absent, options |-> Absent, bbox |-> RawNoBox]
ScalarEntry == [NullEntry EXCEPT !.json = "number"]
ObjectEntry(name, label) == [NullEntry EXCEPT !.json = "object", !.name = name, !.label = label]

sSpace == <<" ">>
sPaddedZip == <<" ", "z", "i", "p", " ">>
sLabel == <<"Z", "i", "p", " ", "c", "o", "d", "e">>
sFive == <<"5">>
sRADIO == <<"R", "A", "D", "I", "O">>
sTitle == <<" ", "W", "9", " ">>

RawNames == {Absent, JString(sSpace), JString(sPaddedZip), JNumber(sFive)}
RawLabels == {Absent, JNull, JString(sSpace), JString(sLabel)}

RichEntry ==
    [json |-> "object", name |-> JString(nFull_Name), label |-> Absent,
     type |-> JString(sRADIO), placeholder |-> JString(sLabel), options |-> JArray(<<vOpt>>),
     bbox |-> RawBox(Num(1), Num(0), Num(0), NoNumber, NotANumber)]
BrokenBoxEntry ==
    [RichEntry EXCEPT !.type = JString(sLabel), !.placeholder = Absent, !.options = JString(vOpt),
                      !.bbox = RawBox(Num(0), Num(0), NotANumber, NoNumber, NoNumber)]

\* raw bbox values: null, a string, and objects: complete ones, and ones with
\* one of page, x, y not a number
RawBoxes ==
    {[RawNoBox EXCEPT !.json = j] : j \in {"null", "string"}}
      \cup {RawBox(Num(1), Num(0), Num(0), Num(1), Num(1)),
            RawBox(Num(1), Num(0), Num(0), NotANumber, NoNumber),
            RawBox(NotANumber, Num(0), Num(0), Num(1), Num(1)),
            RawBox(Num(1), NoNumber, Num(0), Num(1), Num(1)),
            RawBox(Num(1), Num(0), NotANumber, Num(1), Num(1))}
BoxEntries == {[RichEntry EXCEPT !.bbox = b] : b \in RawBoxes}

RawEntries ==
    {ObjectEntry(n, l) : n \in RawNames, l \in RawLabels}
      \cup {NullEntry, ScalarEntry, RichEntry, BrokenBoxEntry}
      \cup BoxEntries

Repeat(e, n) == [i \in 1..n |-> e]

\* arrays of raw entries: every short one, and long ones of one retained entry
RawArrays ==
    UNION {[1..n -> RawEntries] : n \in 0..MaxEntries}
      \cup {Repeat(RichEntry, n) : n \in {MaxDetected + 1, 50}}

\* what JSON.parse is given: text that is no JSON, or the text of a JSON value
NotJson == [top |-> "invalid", fields |-> "undefined", entries |-> <<>>, title |-> Absent]
JsonScalars == {[NotJson EXCEPT !.top = t] : t \in {"null", "number"}}
JsonArrays == {[NotJson EXCEPT !.top = "array", !.entries = a] : a \in RawArrays}
JsonObjects ==
    {[top |-> "object", fields |-> "array", entries |-> a, title |-> t] :
        a \in RawArrays, t \in {Absent, JString(sTitle)}}
      \cup {[top |-> "object", fields |-> f, entries |-> <<>>, title |-> t] :
              f \in {"undefined", "string"},
              t \in {Absent, JNumber(sFive), JString(sSpace), JString(sTitle)}}
JsonTexts == {NotJson} \cup JsonScalars \cup JsonArrays \cup JsonObjects

\* the recognizer's text: bare, inside ```json ... ```, or inside ``` ... ```
RawResponses == [fence : {"none", "json", "plain"}, text : JsonTexts]

-----------------------------------------------------------------------------
(* parseResponse *)

allowedTypes ==
    <<<<"t", "e", "x", "t">>,
      <<"e", "m", "a", "i", "l">>,
      <<"n", "u", "m", "b", "e", "r">>,
      <<"d", "a", "t", "e">>,
      <<"c", "h", "e", "c", "k", "b", "o", "x">>,
      <<"r", "a", "d", "i", "o">>,
      <<"s", "e", "l", "e", "c", "t">>>>

\* raw.match(/```json\s*([\s\S]*?)```/i)?.[1] ?? raw: the inside of a fence
\* opened by ```json; any other text is taken whole, and a text that starts
\* with a bare ``` is no JSON
jsonBlock(raw) ==
    IF raw.fence \in {"none", "json"} THEN raw.text ELSE NotJson

\* mutant: a box is kept as soon as its page is a number
CoerceBBox_pageOnly(b) ==
    IF b.json = "object" /\ b.page.t = "number"
    THEN [present |-> TRUE, page |-> b.page.n, x |-> b.x.n, y |-> b.y.n,
          width |-> b.width, height |-> b.height]
    ELSE [present |-> FALSE, page |-> -1, x |-> 0, y |-> 0,
          width |-> NoNumber, height |-> NoNumber]

\* the bbox member of a mapped entry
CoerceBBox(b) ==
    IF b.json = "object" /\ b.page.t = "number" /\ b.x.t = "number" /\ b.y.t = "number"
    THEN [present |-> TRUE, page |-> b.page.n, x |-> b.x.n, y |-> b.y.n,
          width |-> IF b.width.t = "number" THEN b.width ELSE NoNumber,
          height |-> IF b.height.t = "number" THEN b.height ELSE NoNumber]
    ELSE [present |-> FALSE, page |-> -1, x |-> 0, y |-> 0,
          width |-> NoNumber, height |-> NoNumber]

\* the callback of fieldsRaw.map
MapEntry(item) ==
    [name |-> Trim(Coalesce(item.name, JString(<<>>)).s),
     label |-> Trim(Coalesce(item.label, Coalesce(item.name, JString(<<>>))).s),
     type |-> IF ToLowerCase(Coalesce(item.type, JString(<<>>)).s) \in Range(allowedTypes)
              THEN ToLowerCase(item.type.s) ELSE <<"t", "e", "x", "t">>,
     placeholder |-> IF TruthyValue(item.placeholder) THEN item.placeholder.s ELSE Null,
     options |-> IF item.options.t = "array" THEN item.options.s ELSE Null,
     bbox |-> CoerceBBox(item.bbox)]

\* reading a property of null throws a TypeError
MapThrows(fieldsRaw) == \E i \in 1..Len(fieldsRaw) : fieldsRaw[i].json = "null"

\* .filter((f) => f.name && f.label)
Kept(f) == f.name /= <<>> /\ f.label /= <<>>

NoFields == [threw |-> FALSE, fields |-> <<>>, title |-> Null]

\* the body of the try block: its value, or threw = TRUE
ParseBody(block) ==
    LET fieldsRaw ==
            IF block.top = "array" THEN block.entries
            ELSE IF block.top = "object" /\ block.fields = "array" THEN block.entries
            ELSE <<>>
        title ==
            IF block.top = "object" /\ block.title.t = "string"
                 /\ Len(Trim(block.title.s)) > 0
            THEN Trim(block.title.s) ELSE Null
    IN  IF block.top = "invalid" \/ MapThrows(fieldsRaw)
        THEN [NoFields EXCEPT !.threw = TRUE]
        ELSE [threw |-> FALSE,
              fields |-> SelectSeq([i \in 1..Len(fieldsRaw) |-> MapEntry(fieldsRaw[i])], Kept),
              title |-> title]

\* mutant: no catch around the body
parseResponse_uncaught(raw) == ParseBody(jsonBlock(raw))

parseResponse(raw) ==
    LET body == ParseBody(jsonBlock(raw))
    IN  IF body.threw THEN NoFields ELSE body

-----------------------------------------------------------------------------
(* parseResponse called on any recognizer text *)

InitParse ==
    /\ call \in [op : {"parseResponse"}, raw : RawResponses]
    /\ result = NotCalled
    /\ HandlerIdle

ParseCall ==
    /\ call.op = "parseResponse"
    /\ ~result.called
    /\ result' = Returned(parseResponse(call.raw))
    /\ UNCHANGED <<call, handlerVars>>

NextParse == ParseCall

SpecParse == InitParse /\ [][NextParse]_vars

Parsed == call.op = "parseResponse" /\ result.called

\* the array parseResponse maps over, for a text that parses
RawFieldsOf(block) ==
    IF block.top = "array" \/ (block.top = "object" /\ block.fields = "array")
    THEN block.entries ELSE <<>>

\* C4: parseResponse never throws, and a text JSON.parse rejects gives
\* fields = [] and title = undefined.
C4_ParseIsTotal ==
    Parsed =>
      /\ ~result.value.threw
      /\ (jsonBlock(call.raw).top = "invalid" => result.value = NoFields)

\* text that is no JSON, unfenced: nothing detected
C4_Witness ==
    /\ Parsed
    /\ call.raw = [fence |-> "none", text |-> NotJson]
    /\ result.value = NoFields

\* C5: the field list parseResponse returns holds at most 30 proposals.
C5_AtMostThirty ==
    Parsed => Len(result.value.fields) <= MaxDetected

\* the trimmed name and the trimmed label (the name when the label is absent)
\* of a raw entry
TrimmedName(e) == IF e.name.t \in {"undefined", "null"} THEN <<>> ELSE Trim(e.name.s)
TrimmedLabel(e) ==
    IF e.label.t \in {"undefined", "null"} THEN TrimmedName(e) ELSE Trim(e.label.s)
Retainable(e) == e.json = "object" /\ TrimmedName(e) /= <<>> /\ TrimmedLabel(e) /= <<>>

\* C10: for a text that parses, the retained proposals are, in input order,
\* exactly the raw entries with a non-empty trimmed name and label; every other
\* entry, null and scalar entries included, is dropped on its own.
C10_RetainsExactly ==
    (Parsed /\ jsonBlock(call.raw).top /= "invalid") =>
      LET expected == SelectSeq(RawFieldsOf(jsonBlock(call.raw)), Retainable)
          fields == result.value.fields
      IN  /\ Len(fields) = Len(expected)
          /\ \A i \in 1..Len(expected) :
                /\ fields[i].name = TrimmedName(expected[i])
                /\ fields[i].label = TrimmedLabel(expected[i])

\* a raw bbox that is an object with numeric page, x and y
WellFormedBox(b) ==
    b.json = "object" /\ b.page.t = "number" /\ b.x.t = "number" /\ b.y.t = "number"

\* C11: a retained proposal has a box exactly when the raw bbox is an object
\* with numeric page, x and y, and then page, x, y are the raw ones and width
\* and height are the raw ones when numbers and absent otherwise; without a
\* box nothing of the raw bbox is kept.
C11_BoxWholeOrAbsent ==
    Parsed =>
      LET expected == SelectSeq(RawFieldsOf(jsonBlock(call.raw)), Retainable)
          fields == result.value.fields
      IN  Len(fields) = Len(expected) =>
            \A i \in 1..Len(fields) :
              LET raw == expected[i].bbox
                  box == fields[i].bbox
              IN  /\ box.present <=> WellFormedBox(raw)
                  /\ box.present =>
                       /\ box.page = raw.page.n /\ box.x = raw.x.n /\ box.y = raw.y.n
                       /\ box.width = (IF raw.width.t = "number" THEN raw.width ELSE NoNumber)
                       /\ box.height = (IF raw.height.t = "number" THEN raw.height ELSE NoNumber)
                  /\ ~box.present =>
                       box = [present |-> FALSE, page |-> -1, x |-> 0, y |-> 0,
                              width |-> NoNumber, height |-> NoNumber]

\* a retained proposal whose raw bbox has numeric page and x but no numeric y:
\* no box
C11_Witness ==
    /\ Parsed
    /\ Len(result.value.fields) = 1
    /\ Len(RawFieldsOf(jsonBlock(call.raw))) = 1
    /\ LET raw == RawFieldsOf(jsonBlock(call.raw))[1].bbox
       IN  /\ raw.json = "object" /\ raw.page.t = "number" /\ raw.x.t = "number"
           /\ raw.y.t /= "number" /\ raw.width.t = "number"
    /\ ~result.value.fields[1].bbox.present

\* C12: a response inside a code fence, with or without a language tag, gives
\* the result its content gives unfenced.
C12_FenceTransparent ==
    Parsed => result.value = parseResponse([call.raw EXCEPT !.fence = "none"])

-----------------------------------------------------------------------------
(* normalize called on any string *)

MaxLen == 3

NormalizeChars == {"A", "b", "7", "_", " ", "U+212A", "U+00C9"}
NormalizeInputs == UNION {[1..n -> NormalizeChars] : n \in 0..MaxLen}

InitNormalize ==
    /\ call \in [op : {"normalize"}, value : NormalizeInputs]
    /\ result = NotCalled
    /\ HandlerIdle

NormalizeCall ==
    /\ call.op = "normalize"
    /\ ~result.called
    /\ result' = Returned(normalize(call.value))
    /\ UNCHANGED <<call, handlerVars>>

NextNormalize == NormalizeCall

SpecNormalize == InitNormalize /\ [][NextNormalize]_vars

\* C13: normalize returns, for every string, a string of characters in
\* [a-z0-9] only, and normalizing the result again changes nothing.
C13_NormalizeIdempotent ==
    (call.op = "normalize" /\ result.called) =>
      /\ Range(result.value) \subseteq AlnumLowerChars
      /\ normalize(result.value) = result.value

\* an input with upper case, separators and a non-ASCII letter
C13_Witness ==
    /\ call.op = "normalize"
    /\ call.value = <<"A", "_", "U+00C9">>
    /\ result = Returned(<<"a">>)

-----------------------------------------------------------------------------
(* drawValueAtBBox called on any pages, box and value *)

MaxPages == 2

vDate == <<"2", "0", "2", "4", "-", "0", "1", "-", "0", "1">>

DrawPageLists == UNION {[1..n -> {LetterPage, SmallPage}] : n \in 0..MaxPages}
\* bbox.page: absent, whole numbers from -1 to one past the page count, and
\* two fractions
DrawPageNumbers ==
    {NoNumber, Num(Milli(500)), Num(Milli(1400))}
      \cup {Num(Points(k)) : k \in -1..(MaxPages + 1)}
DrawXs == {Milli(600), Unit, Points(120), -Milli(500)}
DrawYs == {Milli(900), Points(2), Points(300)}
DrawWidths == {NoNumber, Num(Milli(200)), Num(Points(200))}
DrawHeights == {NoNumber, Num(Milli(30)), Num(Points(20)), Num(Points(40)), Num(-Points(5))}
DrawValues == {StringValue(vDate), BooleanValue(TRUE), StringValue(vOmega)}
DrawBoxes ==
    {BoxAt(p, x, y, w, h) :
        p \in DrawPageNumbers, x \in DrawXs, y \in DrawYs, w \in DrawWidths, h \in DrawHeights}

InitDraw ==
    /\ call \in [op : {"drawValueAtBBox"}, pages : DrawPageLists, bbox : DrawBoxes,
                 value : DrawValues]
    /\ result = NotCalled
    /\ HandlerIdle

DrawCall ==
    /\ call.op = "drawValueAtBBox"
    /\ ~result.called
    /\ result' = Returned(drawValueAtBBox(call.pages, call.bbox, call.value))
    /\ UNCHANGED <<call, handlerVars>>

NextDraw == DrawCall

SpecDraw == InitDraw /\ [][NextDraw]_vars

DrawReturned == call.op = "drawValueAtBBox" /\ result.called

\* the value of a whole-numbered bbox.page
WholePage(page) == page.n \div Unit

\* C14: with at least one page and a numeric bbox.page, drawText is reached on
\* a page whose index is in [0, pageCount-1]; a page number that is a valid
\* zero-based index is used as it is, one that is not but whose predecessor is,
\* is used less one; with no page nothing is drawn.
C14_PageIndexInRange ==
    DrawReturned =>
      LET pageCount_ == Len(call.pages)
          page == call.bbox.page
          whole == page.t = "number" /\ page.n % Unit = 0
      IN  /\ pageCount_ = 0 => result.value = NotDrawn
          /\ (pageCount_ >= 1 /\ page.t = "number") => result.value.outcome /= "none"
          /\ result.value.outcome = "drawn" =>
               /\ result.value.page \in 0..(pageCount_ - 1)
               /\ (whole /\ WholePage(page) \in 0..(pageCount_ - 1))
                     => result.value.page = WholePage(page)
               /\ (whole /\ WholePage(page) \notin 0..(pageCount_ - 1)
                         /\ WholePage(page) - 1 \in 0..(pageCount_ - 1))
                     => result.value.page = WholePage(page) - 1

\* page = 1 on a one-page document draws on index 0
C14_Witness ==
    /\ DrawReturned
    /\ call.pages = <<LetterPage>>
    /\ call.bbox.page = Num(Points(1))
    /\ result.value.outcome = "drawn"
    /\ result.value.page = 0

\* the page a returned drawing is on
DrawnPage == call.pages[result.value.page + 1]

Clamp(v, lo, hi) == Max(lo, Min(hi, v))

\* C15: a box is normalized exactly when x <= 1, y <= 1, and width and height
\* are absent or <= 1.  A normalized box has x, y, width and height (the
\* defaults 0.4 and 0.04 included) all scaled by the page size; an absolute box
\* has all four in page units (the defaults being 0.4 of the page width, and 24).
C15_OneConventionPerBox ==
    (DrawReturned /\ result.value.outcome = "drawn") =>
      LET b == call.bbox
          g == result.value.geometry
          pw == DrawnPage.width
          ph == DrawnPage.height
          normalized ==
              /\ b.x <= Unit /\ b.y <= Unit
              /\ (b.width.t = "undefined" \/ b.width.n <= Unit)
              /\ (b.height.t = "undefined" \/ b.height.n <= Unit)
      IN  /\ g.isNormalized <=> normalized
          /\ normalized =>
               /\ g.width = (IF b.width.t = "undefined" THEN Milli(400) ELSE b.width.n) * pw
               /\ g.height = (IF b.height.t = "undefined" THEN Milli(40) ELSE b.height.n) * ph
               /\ g.x = Clamp(b.x, 0, Unit) * pw
               /\ g.yFromTop = Clamp(b.y, 0, Unit) * ph
          /\ ~normalized =>
               /\ g.width = (IF b.width.t = "undefined" THEN Milli(400) * pw ELSE b.width.n)
               /\ g.height = (IF b.height.t = "undefined" THEN Points(24) ELSE b.height.n)
               /\ g.x = Max(0, Min(Points(pw) - g.width, b.x))
               /\ g.yFromTop = Clamp(b.y, 0, Points(ph))

\* {x: 120, y: 300, width: 200, height: 20} is absolute
C15_Witness ==
    /\ DrawReturned
    /\ call.pages = <<LetterPage>>
    /\ call.bbox = BoxAt(Num(0), Points(120), Points(300), Num(Points(200)), Num(Points(20)))
    /\ result.value.outcome = "drawn"
    /\ ~result.value.geometry.isNormalized
    /\ result.value.geometry.x = Points(120)
    /\ result.value.geometry.width = Points(200)

\* C16: the font size given to drawText is height * 0.6 clamped into [9, 16],
\* height being the box height in page units; and the box {page: 0, x: 0.6,
\* y: 0.9, width: 0.2, height: 0.03} with value "2024-01-01" is drawn on page
\* 0, with that text, at a point inside the box scaled to the page and
\* measured from the top.
C16_FontSizeClamped ==
    (DrawReturned /\ result.value.outcome = "drawn") =>
      LET g == result.value.geometry
          pw == DrawnPage.width
          ph == DrawnPage.height
          scaled == (g.height * 3) \div 5
      IN  /\ g.size >= Points(9) /\ g.size <= Points(16)
          /\ g.size = (IF scaled < Points(9) THEN Points(9)
                       ELSE IF scaled > Points(16) THEN Points(16) ELSE scaled)
          /\ (call.bbox = Box(0) /\ call.value = StringValue(vDate)) =>
               /\ result.value.page = 0
               /\ result.value.text = vDate
               /\ g.at.x >= Milli(600) * pw /\ g.at.x <= Milli(800) * pw
               /\ g.at.y >= Points(ph) - Milli(930) * ph
               /\ g.at.y <= Points(ph) - Milli(900) * ph

C16_Witness ==
    /\ DrawReturned
    /\ call.pages = <<LetterPage>>
    /\ call.bbox = Box(0)
    /\ call.value = StringValue(vDate)
    /\ result.value.outcome = "drawn"
    /\ result.value.geometry.size = Milli(14256)

\* C21: the rectangle of a drawn box, in page units, lies inside the page:
\* 0 <= x, x + width <= pageWidth, 0 <= yFromTop, yFromTop + height <= pageHeight.
C21_RectangleInsidePage ==
    (DrawReturned /\ result.value.outcome = "drawn") =>
      LET g == result.value.geometry
      IN  /\ 0 <= g.x
          /\ g.x + g.width <= Points(DrawnPage.width)
          /\ 0 <= g.yFromTop
          /\ g.yFromTop + g.height <= Points(DrawnPage.height)

\* C22: the point given to drawText is on the page: 0 <= x <= pageWidth and
\* 0 <= y <= pageHeight, y being pageHeight - yFromTop - height + padding
\* clamped into [padding, pageHeight - padding], padding = min(6, height / 4).
C22_TextPointOnPage ==
    (DrawReturned /\ result.value.outcome = "drawn") =>
      LET g == result.value.geometry
          pageWidth == Points(DrawnPage.width)
          pageHeight == Points(DrawnPage.height)
          padding == Min(Points(6), g.height \div 4)
      IN  /\ 0 <= g.at.x /\ g.at.x <= pageWidth
          /\ 0 <= g.at.y /\ g.at.y <= pageHeight
          /\ g.at.y = Max(Points(2),
                          Min(pageHeight - padding,
                              Max(padding, pageHeight - g.yFromTop - g.height + padding)))

-----------------------------------------------------------------------------
(* applyValueToField and detectFieldKind called on any form, name and value *)

vTrue == <<"t", "r", "u", "e">>
vTRUE == <<"T", "R", "U", "E">>

FormFieldNames == {nEmpty, nFull_Name, nPhoneHome}
FormInventories ==
    {inv \in Inventories : \A i \in 1..Len(inv) : inv[i].name \in FormFieldNames}
FormCallNames == FormFieldNames \cup {nZip}
ApplyValues ==
    {BooleanValue(TRUE), BooleanValue(FALSE), StringValue(vTrue), StringValue(vTRUE),
     StringValue(vOpt), StringValue(vOmega)}

FormCalls ==
    [op : {"applyValueToField"}, inv : FormInventories, fieldName : FormCallNames,
     value : ApplyValues]
      \cup [op : {"detectFieldKind"}, inv : FormInventories, fieldName : FormCallNames,
            value : {Undefined}]

InitForm ==
    /\ call \in FormCalls
    /\ result = NotCalled
    /\ request = NoRequest
    /\ pc = "idle"
    /\ fieldsFrom = "none"
    /\ pageCount = 0
    /\ inventory = call.inv
    /\ form = [n \in Range(FieldNamesOf(call.inv)) |-> Unset]
    /\ used = {}
    /\ values = <<>>
    /\ idx = 0
    /\ cur = NoIteration
    /\ applied = <<>>
    /\ drawn = <<>>
    /\ effects = {}
    /\ response = NoResponse
    /\ ui = NoUi

\* the value returned is that of the function (undefined); the branch taken
\* is kept with it
ApplyCall ==
    /\ call.op = "applyValueToField"
    /\ ~result.called
    /\ form' = applyValueToField(form, inventory, call.fieldName, call.value)
    /\ effects' = IF ApplyBranch(inventory, call.fieldName, call.value) = "none"
                  THEN effects \cup {"warn"} ELSE effects
    /\ result' = Returned(ApplyBranch(inventory, call.fieldName, call.value))
    /\ UNCHANGED <<call, request, pc, fieldsFrom, pageCount, inventory, used, values, idx,
                   cur, applied, drawn, response, ui>>

KindCall ==
    /\ call.op = "detectFieldKind"
    /\ ~result.called
    /\ result' = Returned(detectFieldKind(inventory, call.fieldName))
    /\ UNCHANGED <<call, handlerVars>>

NextForm == ApplyCall \/ KindCall

SpecForm == InitForm /\ [][NextForm]_vars

\* the form before the call
FreshForm == [n \in Range(FieldNamesOf(call.inv)) |-> Unset]

\* the field a call is about, when the form has one of that name
CalledField == FieldNamed(call.inv, call.fieldName)

\* C23: applyValueToField returns on every form, name and value.  A text field
\* gets the value's string form; a checkbox is checked exactly when the value
\* is boolean true or a string equal to "true" ignoring case, and unchecked
\* otherwise; a choice field gets the value's string form selected; a field of
\* no kind, a missing field and a choice field that rejects the value are left
\* unchanged with a warning, and nothing else warns; no other field changes.
C23_ApplyNeverRaises ==
    (call.op = "applyValueToField" /\ result.called) =>
      LET value == call.value
          kind == IF HasField(call.inv, call.fieldName) THEN CalledField.kind ELSE "none"
          rejected == kind \in {"radio", "optionlist"}
                        /\ String(value) \notin Range(FieldOptions(kind))
          unchanged == kind \in {"none", "unknown"} \/ rejected
          isTrue == \/ value = BooleanValue(TRUE)
                    \/ value.t = "string" /\ ToLowerCase(value.s) = vTrue
      IN  /\ \A n \in DOMAIN form : n /= call.fieldName => form[n] = Unset
          /\ DOMAIN form = DOMAIN FreshForm
          /\ unchanged <=> "warn" \in effects
          /\ unchanged => form = FreshForm
          /\ ~unchanged =>
               /\ result.value = kind
               /\ kind = "text" => form[call.fieldName] = String(value)
               /\ kind = "checkbox" =>
                    form[call.fieldName] = (IF isTrue THEN Checked ELSE Unchecked)
               /\ kind \in {"radio", "dropdown", "optionlist"} =>
                    form[call.fieldName] = String(value)

\* "TRUE" checks a checkbox
C23_Witness ==
    /\ call.op = "applyValueToField"
    /\ result.called
    /\ HasField(call.inv, call.fieldName)
    /\ CalledField.kind = "checkbox"
    /\ call.value = StringValue(vTRUE)
    /\ form[call.fieldName] = Checked

\* C24: detectFieldKind returns the kind of the first accessor, in the order
\* text, checkbox, radio, dropdown, option-list, that does not throw, and
\* unknown when all throw; the form is as it was; a named field classified
\* unknown is still what resolveFieldName returns for its own name, whatever
\* kinds are preferred.
C24_FirstAccessorWins ==
    (call.op = "detectFieldKind" /\ result.called) =>
      LET succeeds(i) == AccessorSucceeds(call.inv, call.fieldName, AccessorOrder[i])
          order == 1..Len(AccessorOrder)
      IN  /\ \A i \in order :
                (succeeds(i) /\ \A j \in 1..(i - 1) : ~succeeds(j))
                    => result.value = AccessorOrder[i]
          /\ (\A i \in order : ~succeeds(i)) => result.value = "unknown"
          /\ result.value \in PdfFieldKind
          /\ form = FreshForm
          /\ (result.value = "unknown" /\ HasField(call.inv, call.fieldName)
                /\ Truthy(call.fieldName)) =>
               \A preferredKinds \in PreferredLists :
                   resolveFieldName(call.fieldName, FieldNamesOf(call.inv),
                                    FieldKindsOf(call.inv), preferredKinds)
                     = call.fieldName

\* a button, which no accessor accepts, next to a text field
C24_Witness ==
    /\ call.op = "detectFieldKind"
    /\ result.called
    /\ Len(call.inv) = 2
    /\ HasField(call.inv, call.fieldName)
    /\ CalledField.kind = "unknown"
    /\ result.value = "unknown"
    /\ \E i \in 1..2 : call.inv[i].kind = "text"

-----------------------------------------------------------------------------
(* The page component: position and size adjustments, and the preview *)

MaxNudges == 1

\* adjustments[field.name]: undefined, or {dx, dy, fontScale}
NoAdjustment == [set |-> FALSE, dx |-> 0, dy |-> 0, fontScale |-> Unit]
\* prev[fieldName] || { dx: 0, dy: 0, fontScale: 1 }
CurrentAdjustment(adj) == [adj EXCEPT !.set = TRUE]

\* delta of nudgeField, and the step of the + and - buttons
NudgeDelta == Milli(5)
FontScaleStep == Milli(50)

nudgeField(adj, dir) ==
    LET current == CurrentAdjustment(adj)
    IN  [current EXCEPT
           !.dy = IF dir = "up" THEN @ - NudgeDelta
                  ELSE IF dir = "down" THEN @ + NudgeDelta ELSE @,
           !.dx = IF dir = "left" THEN @ - NudgeDelta
                  ELSE IF dir = "right" THEN @ + NudgeDelta ELSE @]

scaleFieldFont(adj, delta) ==
    LET current == CurrentAdjustment(adj)
    IN  [current EXCEPT !.fontScale = Min(Points(2), Max(Milli(500), @ + delta))]

\* a detected field as the page holds it
DetectedField(name, type, bbox) ==
    [entry |-> "object", name |-> name, type |-> type, bbox |-> bbox, fontScale |-> NoNumber]

\* one entry of adjustedFields
adjustedField(field, adj) ==
    IF ~adj.set \/ ~field.bbox.present THEN field
    ELSE [field EXCEPT !.bbox.x = @ + adj.dx, !.bbox.y = @ + adj.dy,
                       !.fontScale = Num(adj.fontScale)]

NoSent == [entry |-> "none"]

UiFields ==
    {DetectedField(nZip, "date", b) :
        b \in {Box(0),
                BoxAt(Num(0), Milli(998), Milli(998), Num(Milli(200)), Num(Milli(30))),
                BoxAt(Num(0), Points(120), Points(300), Num(Points(200)), Num(Points(20)))}}

\* a flat one-page document is loaded and one field with a box was detected
InitAdjust ==
    /\ call = NoCall
    /\ result = NotCalled
    /\ request = NoRequest
    /\ pc = "idle"
    /\ fieldsFrom = "none"
    /\ pageCount = 1
    /\ inventory = <<>>
    /\ form = <<>>
    /\ used = {}
    /\ values = <<>>
    /\ idx = 0
    /\ cur = NoIteration
    /\ applied = <<>>
    /\ drawn = <<>>
    /\ effects = {}
    /\ response = NoResponse
    /\ ui \in [mounted : {TRUE}, field : UiFields, value : {StringValue(vDate)},
               adjustments : {NoAdjustment}, sent : {NoSent}, previewLoading : {TRUE}]

uiUnchanged == <<call, result, request, pc, fieldsFrom, pageCount, inventory, form, used,
                 values, idx, applied, effects, response>>

WithinNudges(adj) ==
    /\ adj.dx >= -(MaxNudges * NudgeDelta) /\ adj.dx <= MaxNudges * NudgeDelta
    /\ adj.dy >= -(MaxNudges * NudgeDelta) /\ adj.dy <= MaxNudges * NudgeDelta

\* a click on one of the four arrows
NudgeField ==
    /\ ui.mounted
    /\ \E dir \in {"up", "down", "left", "right"} :
         /\ WithinNudges(nudgeField(ui.adjustments, dir))
         /\ ui' = [ui EXCEPT !.adjustments = nudgeField(ui.adjustments, dir),
                             !.previewLoading = TRUE]
    /\ UNCHANGED <<uiUnchanged, cur, drawn>>

\* a click on + or -
ScaleFieldFont ==
    /\ ui.mounted
    /\ \E delta \in {FontScaleStep, -FontScaleStep} :
         ui' = [ui EXCEPT !.adjustments = scaleFieldFont(ui.adjustments, delta),
                          !.previewLoading = TRUE]
    /\ UNCHANGED <<uiUnchanged, cur, drawn>>

\* the preview effect: a fill request with adjustedFields, answered for the
\* flat document by the fill loop; drawn holds what the preview PDF shows
PreviewFill ==
    /\ ui.mounted
    /\ ui.previewLoading
    /\ \E f \in {adjustedField(ui.field, ui.adjustments)} :
         \E it \in {Iteration(f, ui.value)} :
           /\ cur' = it
           /\ drawn' = IF it.effect = "drawn"
                       THEN <<drawValueAtBBox(PagesOf(pageCount), f.bbox, ui.value)>>
                       ELSE <<>>
           /\ ui' = [ui EXCEPT !.sent = f, !.previewLoading = FALSE]
    /\ UNCHANGED uiUnchanged

NextAdjust == NudgeField \/ ScaleFieldFont \/ PreviewFill

SpecAdjust == InitAdjust /\ [][NextAdjust]_vars

\* C17: when two successive fill requests of the page differ only in the
\* field's fontScale, the field's text is drawn at different font sizes.
C17_FontScaleChangesSize ==
    [][(/\ ui.mounted /\ ui'.mounted
        /\ ui.sent /= NoSent /\ ui'.sent /= ui.sent
        /\ [ui'.sent EXCEPT !.fontScale = ui.sent.fontScale] = ui.sent
        /\ drawn /= <<>> /\ drawn' /= <<>>)
          => drawn'[1].geometry.size /= drawn[1].geometry.size]_vars

\* C28: for a field detected with a normalized box, of two successive
\* previews the one whose box is sent further right does not draw the text
\* further left, and the one whose box is sent further down does not draw the
\* text higher on the page.
C28_NudgesMonotone ==
    [][(/\ ui.mounted /\ ui'.mounted
        /\ IsNormalized(ui.field.bbox)
        /\ ui.sent /= NoSent /\ ui'.sent /= ui.sent
        /\ drawn /= <<>> /\ drawn' /= <<>>)
          => /\ ui'.sent.bbox.x >= ui.sent.bbox.x
                  => drawn'[1].geometry.at.x >= drawn[1].geometry.at.x
             /\ ui'.sent.bbox.y >= ui.sent.bbox.y
                  => drawn'[1].geometry.at.y <= drawn[1].geometry.at.y]_vars

-----------------------------------------------------------------------------
(* The page component: the debounced preview effect and downloadFilled *)

MaxChanges == 3

\* useState(null)
NoPreview == [set |-> FALSE]
NoTimer == [set |-> FALSE]
NoDownload == [set |-> FALSE]

\* the field the recognizer found in either file
PreviewField == DetectedField(nZip, "date", Box(0))

\* answers typed into the field
TypedValues == {StringValue(<<>>), StringValue(vDate), StringValue(vOmega)}

\* what a run of the effect, or downloadFilled, closes over: file, values and
\* adjustedFields
Closure(u) ==
    [file |-> u.file, values |-> u.values,
     fields |-> [i \in 1..Len(u.fields) |-> adjustedField(u.fields[i], u.adjustments)]]

\* the answer of /api/fill for a closure of one field on the flat document:
\* res.ok with the drawn page, or an error
FillResponse(c) ==
    LET it == Iteration(c.fields[1], c.values)
    IN  IF Throws(it) THEN [ok |-> FALSE, error |-> FillError.error]
        ELSE [ok |-> TRUE, file |-> c.file,
              drawn |-> drawValueAtBBox(PagesOf(pageCount), c.fields[1].bbox, c.values)]

\* mutant: a response is handled whether or not its run was cleaned up
HandlesResponse_always(run) == TRUE

\* if (!active) return, and finally { if (active) ... }
HandlesResponse(run) == run.active

\* the cleanup of the effect: active = false; clearTimeout(timer)
Cleanup(u) ==
    [u EXCEPT !.timer = NoTimer,
              !.requests = {[r EXCEPT !.active = FALSE] : r \in u.requests}]

\* a run of the effect after a change of values, adjustedFields, fields or file
RunEffect(u) ==
    LET cleaned == Cleanup(u)
    IN  IF Len(cleaned.fields) = 0
        THEN [cleaned EXCEPT !.filledPreviewUrl = NoPreview,
                             !.filledPreviewBase64 = NoPreview]
        ELSE [cleaned EXCEPT !.timer = [set |-> TRUE, closure |-> Closure(cleaned)]]

\* a file is chosen, its field is detected and the first run of the effect has
\* set its timer
InitPreview ==
    /\ call = NoCall
    /\ result = NotCalled
    /\ request = NoRequest
    /\ pc = "idle"
    /\ fieldsFrom = "none"
    /\ pageCount = 1
    /\ inventory = <<>>
    /\ form = <<>>
    /\ used = {}
    /\ values = <<>>
    /\ idx = 0
    /\ cur = NoIteration
    /\ applied = <<>>
    /\ drawn = <<>>
    /\ effects = {}
    /\ response = NoResponse
    /\ ui = RunEffect([mounted |-> TRUE, file |-> 1, detecting |-> FALSE,
                       fields |-> <<PreviewField>>, values |-> StringValue(<<>>),
                       adjustments |-> NoAdjustment, timer |-> NoTimer, requests |-> {},
                       started |-> 0, filledPreviewUrl |-> NoPreview,
                       filledPreviewBase64 |-> NoPreview, previewLoading |-> FALSE,
                       status |-> "none", changes |-> 0, downloaded |-> NoDownload])

previewUnchanged == <<call, result, request, pc, fieldsFrom, pageCount, inventory, form,
                      used, values, idx, cur, applied, drawn, effects, response>>

\* updateValue: an answer is typed
UpdateValue ==
    /\ ui.mounted /\ Len(ui.fields) > 0
    /\ ui.changes < MaxChanges
    /\ \E v \in TypedValues \ {ui.values} :
         ui' = RunEffect([ui EXCEPT !.values = v, !.changes = @ + 1])
    /\ UNCHANGED previewUnchanged

\* a click on an arrow of the field
PreviewNudge ==
    /\ ui.mounted /\ Len(ui.fields) > 0
    /\ ui.changes < MaxChanges
    /\ \E dir \in {"up", "down", "left", "right"} :
         /\ WithinNudges(nudgeField(ui.adjustments, dir))
         /\ ui' = RunEffect([ui EXCEPT !.adjustments = nudgeField(ui.adjustments, dir),
                                       !.previewLoading = TRUE, !.changes = @ + 1])
    /\ UNCHANGED previewUnchanged

\* handleFileChange with a PDF: fields and values are emptied, the file is set
\* and detection starts
HandleFileChange ==
    /\ ui.mounted /\ ~ui.detecting
    /\ ui.changes < MaxChanges
    /\ ui' = RunEffect([ui EXCEPT !.file = @ + 1, !.fields = <<>>,
                                  !.values = StringValue(<<>>), !.detecting = TRUE,
                                  !.status = "Detecting fields", !.changes = @ + 1])
    /\ UNCHANGED previewUnchanged

\* detectFields gets its answer: the fields and their initial values are set
DetectFields ==
    /\ ui.mounted /\ ui.detecting
    /\ ui' = RunEffect([ui EXCEPT !.fields = <<PreviewField>>,
                                  !.values = StringValue(<<>>), !.detecting = FALSE,
                                  !.status = "none"])
    /\ UNCHANGED previewUnchanged

\* the timer of the effect fires after 400 ms: the request is sent
PreviewTimer ==
    /\ ui.mounted /\ ui.timer.set
    /\ ui' = [ui EXCEPT !.timer = NoTimer,
                        !.previewLoading = TRUE,
                        !.started = @ + 1,
                        !.requests = @ \cup {[id |-> ui.started + 1, active |-> TRUE,
                                              closure |-> ui.timer.closure]}]
    /\ UNCHANGED previewUnchanged

\* the answer to a preview request arrives
PreviewResponse ==
    /\ ui.mounted
    /\ \E run \in ui.requests :
         LET res == FillResponse(run.closure)
             gone == [ui EXCEPT !.requests = @ \ {run}]
             preview == [set |-> TRUE, id |-> run.id, pdf |-> res]
         IN  ui' = IF ~HandlesResponse(run) THEN gone
                   ELSE IF ~res.ok
                        THEN [gone EXCEPT !.status = res.error, !.previewLoading = FALSE]
                   ELSE [gone EXCEPT !.filledPreviewBase64 = preview,
                                     !.filledPreviewUrl = preview,
                                     !.status = "none",
                                     !.previewLoading = FALSE]
    /\ UNCHANGED previewUnchanged

\* disabled={!file || previewLoading}
DownloadEnabled(u) == ~u.previewLoading

\* a click on Download: the cached preview when there is one, otherwise a
\* fill request with the values and adjustedFields of the click
DownloadFilled ==
    /\ ui.mounted /\ DownloadEnabled(ui)
    /\ LET res == IF Len(ui.fields) > 0 THEN FillResponse(Closure(ui))
                  ELSE [ok |-> TRUE, file |-> ui.file, drawn |-> NotDrawn]
       IN  ui' = IF ui.filledPreviewBase64.set
                 THEN [ui EXCEPT !.downloaded =
                                    [set |-> TRUE, pdf |-> ui.filledPreviewBase64.pdf]]
                 ELSE IF ~res.ok
                      THEN [ui EXCEPT !.status = "Failed to fill PDF", !.downloaded = NoDownload]
                 ELSE [ui EXCEPT !.downloaded = [set |-> TRUE, pdf |-> res]]
    /\ UNCHANGED previewUnchanged

NextPreview ==
    \/ UpdateValue
    \/ PreviewNudge
    \/ HandleFileChange
    \/ DetectFields
    \/ PreviewTimer
    \/ PreviewResponse
    \/ DownloadFilled

SpecPreview == InitPreview /\ [][NextPreview]_vars

\* the requests answered by a step
Answered == {r \in ui.requests : \A q \in ui'.requests : q.id /= r.id}

\* C29: the answer to a preview request whose run of the effect was cleaned
\* up (values, adjustments, fields or file changed since) changes none of
\* filledPreviewUrl, filledPreviewBase64 and previewLoading; a step that sets
\* the preview sets it to the answer of the request started last, with no
\* newer run waiting on its timer, rendered from the state as it is.
C29_SupersededResponseIgnored ==
    [][(ui.mounted /\ ui'.mounted) =>
         /\ \A r \in Answered :
               ~r.active =>
                 /\ ui'.filledPreviewUrl = ui.filledPreviewUrl
                 /\ ui'.filledPreviewBase64 = ui.filledPreviewBase64
                 /\ ui'.previewLoading = ui.previewLoading
         /\ (ui'.filledPreviewBase64 /= ui.filledPreviewBase64
               /\ ui'.filledPreviewBase64.set) =>
                 /\ ui'.filledPreviewBase64.id = ui.started
                 /\ ~ui.timer.set
                 /\ Len(ui.fields) > 0
                 /\ ui'.filledPreviewBase64.pdf = FillResponse(Closure(ui))
                 /\ ui'.filledPreviewUrl = ui'.filledPreviewBase64]_vars

\* a superseded request is still in flight while the preview shows the answer
\* to a later one
C29_Witness ==
    /\ ui.mounted
    /\ ui.filledPreviewBase64.set
    /\ \E r \in ui.requests : ~r.active /\ r.id < ui.filledPreviewBase64.id

\* C30: a click on the enabled Download control delivers the document
\* rendered from the values and adjustments of the moment of the click.
C30_DownloadIsCurrent ==
    [][(/\ ui.mounted /\ ui'.mounted
        /\ Len(ui.fields) > 0
        /\ ui'.downloaded /= ui.downloaded
        /\ ui'.downloaded.set)
          => ui'.downloaded.pdf = FillResponse(Closure(ui))]_vars

-----------------------------------------------------------------------------
(* The request handlers *)

FillRequests ==
    {[NoRequest EXCEPT !.handler = "fill", !.body = "invalid json"],
     [NoRequest EXCEPT !.handler = "fill", !.body = "null", !.pdfBase64 = "undefined",
                       !.values = "undefined", !.fields = "undefined"]}
      \cup [handler : {"fill"}, apiKey : {"n/a"}, file : {"n/a"}, body : {"object"},
            pdfBase64 : {"undefined", "empty", "bytes"},
            values : {"undefined", "object"},
            fields : {"undefined", "empty", "array"}]

DetectRequests ==
    [handler : {"detect"}, apiKey : {"undefined", "key"},
     file : {"null", "string", "file"}, body : {"n/a"}, pdfBase64 : {"n/a"},
     values : {"n/a"}, fields : {"n/a"}]

\* what PDFDocument.load makes of the bytes: it throws, or gives a document
Documents ==
    [loads : {FALSE}, inventory : {<<>>}, pages : {0}]
      \cup [loads : {TRUE}, inventory : LoopInventories, pages : PageCounts]

\* !payload?.pdfBase64 || !payload.values
PayloadIncomplete(req) ==
    req.body = "null" \/ req.pdfBase64 \in {"undefined", "empty"} \/ req.values = "undefined"

\* mutant: the native-form check is missing
NativeFormPresent_never(inv) == FALSE

\* mutant: a form of one field passes the check
NativeFormPresent_severalOnly(inv) == Len(inv) > 1

\* form.getFields().length > 0
NativeFormPresent(inv) == Len(inv) > 0

NativeFormError ==
    Response(400, "error", "This PDF already has fillable fields")

\* mutant: values is not checked
FillRejection_valuesUnchecked(req) ==
    IF req.body = "invalid json" THEN Response(400, "error", "Invalid JSON")
    ELSE IF req.body = "null" \/ req.pdfBase64 \in {"undefined", "empty"}
         THEN Response(400, "error", "Missing pdfBase64 or values")
    ELSE NoResponse

\* lines 444-456: the response to a request that is rejected before the
\* document is loaded, NoResponse when it is not
FillRejection(req) ==
    IF req.body = "invalid json" THEN Response(400, "error", "Invalid JSON")
    ELSE IF PayloadIncomplete(req)
         THEN Response(400, "error", "Missing pdfBase64 or values")
    ELSE NoResponse

\* the fill handler up to the loop: payload validation, load, native-form
\* check, and the setup of the loop
FillRequest ==
    /\ pc = "idle"
    /\ \E req \in FillRequests, doc \in Documents :
         /\ request' = req
         /\ IF FillRejection(req) /= NoResponse
            THEN /\ pc' = "done"
                 /\ response' = FillRejection(req)
                 /\ UNCHANGED <<fieldsFrom, pageCount, inventory, form, applied, effects>>
            ELSE IF ~doc.loads
            THEN /\ pc' = "done"
                 /\ response' = FillError
                 /\ effects' = effects \cup {"load"}
                 /\ UNCHANGED <<fieldsFrom, pageCount, inventory, form, applied>>
            ELSE /\ effects' = effects \cup {"load"}
                 /\ inventory' = doc.inventory
                 /\ pageCount' = doc.pages
                 /\ form' = [n \in Range(FieldNamesOf(doc.inventory)) |-> Unset]
                 /\ applied' = [n \in Range(FieldNamesOf(doc.inventory)) |-> 0]
                 /\ IF NativeFormPresent(doc.inventory)
                    THEN /\ pc' = "done"
                         /\ response' = NativeFormError
                         /\ UNCHANGED fieldsFrom
                    ELSE /\ pc' = "fill_loop"
                         /\ fieldsFrom' = IF req.fields = "array" THEN "payload.fields"
                                          ELSE "values keys"
                         /\ UNCHANGED response
    /\ UNCHANGED <<ui, call, result, used, values, idx, cur, drawn>>

\* the detect handler up to the recognizer call: key and file checks, load,
\* native-form check
DetectRequest ==
    /\ pc = "idle"
    /\ \E req \in DetectRequests, doc \in Documents :
         /\ request' = req
         /\ IF req.apiKey = "undefined"
            THEN /\ pc' = "done"
                 /\ response' = Response(500, "error", "Missing GEMINI_API_KEY")
                 /\ UNCHANGED <<pageCount, inventory, effects>>
            ELSE IF req.file /= "file"
            THEN /\ pc' = "done"
                 /\ response' = Response(400, "error", "PDF file is required")
                 /\ UNCHANGED <<pageCount, inventory, effects>>
            ELSE IF ~doc.loads
            THEN /\ pc' = "done"
                 /\ response' = Response(500, "uncaught", "PDFDocument.load rejected")
                 /\ effects' = effects \cup {"load"}
                 /\ UNCHANGED <<pageCount, inventory>>
            ELSE /\ effects' = effects \cup {"load"}
                 /\ inventory' = doc.inventory
                 /\ pageCount' = doc.pages
                 /\ IF NativeFormPresent(doc.inventory)
                    THEN pc' = "done" /\ response' = NativeFormError
                    ELSE pc' = "detect_recognize" /\ UNCHANGED response
    /\ UNCHANGED <<ui, call, result, fieldsFrom, form, used, values, idx, cur, applied, drawn>>

\* lines 203-225: a detected field takes type and options from the document
\* field its name resolves to
Enrich(field, inv) ==
    LET resolved == resolveFieldNameDetect(field.name, FieldNamesOf(inv))
        kind == detectFieldKind(inv, resolved)
        type == IF kind = "radio" THEN <<"r", "a", "d", "i", "o">>
                ELSE IF kind = "checkbox" THEN <<"c", "h", "e", "c", "k", "b", "o", "x">>
                ELSE IF kind \in {"dropdown", "optionlist"}
                     THEN <<"s", "e", "l", "e", "c", "t">>
                ELSE field.type
        options == FieldOptions(kind)
    IN  IF ~Truthy(resolved) THEN field
        ELSE [field EXCEPT
                !.type = type,
                !.options = IF Len(options) > 0
                               /\ (field.options = Null \/ Len(options) > Len(field.options))
                            THEN options ELSE field.options]

\* the recognizer call and what follows it: parse, enrich, respond
DetectRecognize ==
    /\ pc = "detect_recognize"
    /\ pc' = "done"
    /\ effects' = effects \cup {"recognize"}
    /\ \E out \in [throws : {TRUE}, raw : {[fence |-> "none", text |-> NotJson]}]
                    \cup [throws : {FALSE}, raw : RawResponses] :
         response' =
            IF out.throws
            THEN Response(500, "error", "Failed to detect fields from PDF")
            ELSE LET parsed == parseResponse(out.raw)
                 IN  [Response(200, "json", "none") EXCEPT
                         !.fields = [i \in 1..Len(parsed.fields) |->
                                        Enrich(parsed.fields[i], inventory)],
                         !.title = parsed.title]
    /\ UNCHANGED <<ui, call, result, request, fieldsFrom, pageCount, inventory, form, used,
                   values, idx, cur, applied, drawn>>

Init == HandlerInit

Next == DetectRequest \/ DetectRecognize \/ FillRequest \/ FillStep \/ FillFinish

Spec == Init /\ [][Next]_vars

-----------------------------------------------------------------------------
(* Claims about the handlers *)

Untouched ==
    /\ used = {} /\ idx = 0 /\ cur = NoIteration /\ drawn = <<>>
    /\ \A n \in DOMAIN form : form[n] = Unset
    /\ \A n \in DOMAIN applied : applied[n] = 0

\* C2: in both handlers, a loaded document whose field inventory is not empty
\* ends the request with a 400 error and nothing but the load has happened: no
\* recognizer call, no resolution, no apply, no drawing, no save.
C2_NativeFormRejected ==
    (request.handler \in {"detect", "fill"} /\ "load" \in effects /\ Len(inventory) > 0)
        => /\ pc = "done"
           /\ response.status = 400
           /\ response.kind = "error"
           /\ response.error /= "none"
           /\ effects = {"load"}
           /\ Untouched

C2_Witness ==
    /\ request.handler = "fill"
    /\ request.body = "object" /\ request.pdfBase64 = "bytes" /\ request.values = "object"
    /\ Len(inventory) = MaxFields
    /\ pc = "done"
    /\ response.status = 400

LocalFailure ==
    cur.effect \in {"warned", "apply rejected", "drawText threw"}

\* C3: in a fill request past validation and the native-form check, after an
\* iteration that failed locally (no field resolved, the field rejected the
\* value, or drawText raised) the request is still in its loop or has answered
\* with the serialised document, never with an error.
C3_LocalFailuresStayLocal ==
    (request.handler = "fill" /\ LocalFailure)
        => (pc = "fill_loop" /\ response = NoResponse)
             \/ (pc = "done" /\ response = FilledPdf)

\* C9: a fill request whose body is not JSON, or has no or an empty pdfBase64,
\* or no values, is answered with a 400 error, and nothing was loaded,
\* resolved, applied or drawn.
C9_BadPayloadRejected ==
    (request.handler = "fill"
       /\ (request.body = "invalid json"
             \/ request.pdfBase64 \in {"undefined", "empty"}
             \/ request.values = "undefined"))
        => /\ pc = "done"
           /\ response.status = 400
           /\ response.kind = "error"
           /\ effects = {}
           /\ inventory = <<>>
           /\ Untouched

C9_Witness ==
    /\ request.handler = "fill"
    /\ request.body = "object"
    /\ request.pdfBase64 = "bytes"
    /\ request.values = "undefined"
    /\ response = Response(400, "error", "Missing pdfBase64 or values")

\* the request entered the loop of the fill handler
PastNativeFormCheck == request.handler = "fill" /\ fieldsFrom /= "none"

====
